---- MODULE Spec2Model ----
(***************************************************************************)
(* A model of the Mode D telegram decoder of async_dsmr (src/src/lib.rs):  *)
(* ModeDFrame, its reset() and its tokio_util Decoder::decode, over a      *)
(* caller-owned byte buffer.  Bytes are the naturals 0..255, byte strings  *)
(* and Rust Strings are sequences of bytes (a String being a sequence that *)
(* passed String::from_utf8).                                              *)
(***************************************************************************)
EXTENDS Naturals, Integers, Sequences

(***************************************************************************)
(* Byte literals of the source.                                            *)
(***************************************************************************)
SLASH == 47
LF == 10
BANG == 33

\* bounds of the model
MaxDataLines == 2
MaxResets == 1

(***************************************************************************)
(* Sequence helpers: the slices and searches of the source, 0-based        *)
(* indices as in Rust.                                                     *)
(***************************************************************************)
\* s[from..] (0-based, from <= len)
SliceFrom(s, from) == SubSeq(s, from + 1, Len(s))

\* s[from..to] (0-based, half open)
Slice(s, from, to) == SubSeq(s, from + 1, to)

\* bytes.iter().position(|c| *c == b): the 0-based index of the first b, -1 for None
Position(s, b) ==
  IF \E i \in 1..Len(s) : s[i] = b
  THEN (CHOOSE i \in 1..Len(s) : s[i] = b /\ \A j \in 1..(i - 1) : s[j] # b) - 1
  ELSE -1

\* str::contains(char) for an ASCII char
Contains(s, b) == \E i \in 1..Len(s) : s[i] = b

\* str::starts_with(char) for an ASCII char
StartsWith(s, b) == Len(s) > 0 /\ s[1] = b

(***************************************************************************)
(* CRC-16/ARC (crc::CRC_16_ARC: width 16, poly 0x8005 reflected = 0xA001,  *)
(* init 0, refin, refout, xorout 0), as a running 16-bit value.            *)
(***************************************************************************)
RECURSIVE Xor(_, _)
Xor(a, b) ==
  IF a = 0 THEN b
  ELSE IF b = 0 THEN a
  ELSE ((((a % 2) + (b % 2)) % 2) + (2 * Xor(a \div 2, b \div 2)))

CrcPoly == 40961

CrcShift(c) == IF c % 2 = 1 THEN Xor(c \div 2, CrcPoly) ELSE c \div 2

\* the crate's lookup table: entry i is i shifted out through the polynomial
CrcTable ==
  [i \in 0..255 |->
     CrcShift(CrcShift(CrcShift(CrcShift(CrcShift(CrcShift(CrcShift(CrcShift(i))))))))]

\* one byte of update: table[(crc ^ byte) & 0xff] ^ (crc >> 8)
CrcByte(c, b) == Xor(CrcTable[Xor(c % 256, b)], c \div 256)

\* CRC.digest(): a fresh accumulator
CrcDigest == 0

\* Digest::update(bytes)
RECURSIVE CrcUpdate(_, _)
CrcUpdate(c, s) ==
  IF s = <<>> THEN c
  ELSE LET c1 == CrcByte(c, Head(s))
       IN IF c1 < 65536 THEN CrcUpdate(c1, Tail(s)) ELSE c1 % 65536  \* a u16

\* Digest::finalize(): refout with refin, xorout 0, so the running value
CrcFinalize(c) == c % 65536

(***************************************************************************)
(* String::from_utf8: well-formed UTF-8 byte sequences (Unicode table 3-7) *)
(***************************************************************************)
IsCont(b) == b >= 128 /\ b <= 191

RECURSIVE ValidUtf8(_)
ValidUtf8(s) ==
  IF s = <<>> THEN TRUE
  ELSE LET b == s[1]
           n == Len(s)
       IN IF b < 128 THEN ValidUtf8(SliceFrom(s, 1))
          ELSE IF b >= 194 /\ b <= 223
            THEN n >= 2 /\ IsCont(s[2]) /\ ValidUtf8(SliceFrom(s, 2))
          ELSE IF b >= 224 /\ b <= 239
            THEN /\ n >= 3
                 /\ IsCont(s[2]) /\ IsCont(s[3])
                 /\ (b = 224 => s[2] >= 160)
                 /\ (b = 237 => s[2] <= 159)
                 /\ ValidUtf8(SliceFrom(s, 3))
          ELSE IF b >= 240 /\ b <= 244
            THEN /\ n >= 4
                 /\ IsCont(s[2]) /\ IsCont(s[3]) /\ IsCont(s[4])
                 /\ (b = 240 => s[2] >= 144)
                 /\ (b = 244 => s[2] <= 143)
                 /\ ValidUtf8(SliceFrom(s, 4))
          ELSE FALSE

(***************************************************************************)
(* str::trim: strips leading and trailing chars with the White_Space       *)
(* property (char::is_whitespace), here on the UTF-8 encoding.             *)
(***************************************************************************)
\* the length in bytes of the whitespace char that s starts with, 0 if none
WsPrefix(s) ==
  LET n == Len(s)
  IN IF n >= 1 /\ ((s[1] >= 9 /\ s[1] <= 13) \/ s[1] = 32) THEN 1
     ELSE IF n >= 2 /\ s[1] = 194 /\ (s[2] = 133 \/ s[2] = 160) THEN 2
     ELSE IF n >= 3 /\ s[1] = 225 /\ s[2] = 154 /\ s[3] = 128 THEN 3
     ELSE IF n >= 3 /\ s[1] = 226 /\ s[2] = 128
             /\ ((s[3] >= 128 /\ s[3] <= 138) \/ s[3] = 168 \/ s[3] = 169 \/ s[3] = 175)
       THEN 3
     ELSE IF n >= 3 /\ s[1] = 226 /\ s[2] = 129 /\ s[3] = 159 THEN 3
     ELSE IF n >= 3 /\ s[1] = 227 /\ s[2] = 128 /\ s[3] = 128 THEN 3
     ELSE 0

\* the length in bytes of the whitespace char that s ends with, 0 if none
WsSuffix(s) ==
  LET n == Len(s)
  IN IF n >= 1 /\ WsPrefix(<<s[n]>>) = 1 THEN 1
     ELSE IF n >= 2 /\ WsPrefix(SubSeq(s, n - 1, n)) = 2 THEN 2
     ELSE IF n >= 3 /\ WsPrefix(SubSeq(s, n - 2, n)) = 3 THEN 3
     ELSE 0

RECURSIVE TrimStart(_)
TrimStart(s) ==
  IF WsPrefix(s) = 0 THEN s ELSE TrimStart(SliceFrom(s, WsPrefix(s)))

RECURSIVE TrimEnd(_)
TrimEnd(s) ==
  IF WsSuffix(s) = 0 THEN s ELSE TrimEnd(SubSeq(s, 1, Len(s) - WsSuffix(s)))

Trim(s) == TrimEnd(TrimStart(s))

(***************************************************************************)
(* u16::from_str_radix(s, 16): -1 for Err.  An optional leading '+', then  *)
(* one or more digits 0-9 a-f A-F; a value above 0xFFFF overflows.         *)
(***************************************************************************)
HexDigit(b) ==
  IF b >= 48 /\ b <= 57 THEN b - 48
  ELSE IF b >= 65 /\ b <= 70 THEN b - 55
  ELSE IF b >= 97 /\ b <= 102 THEN b - 87
  ELSE -1

RECURSIVE HexValue(_, _)
HexValue(acc, s) ==
  IF s = <<>> THEN acc
  ELSE IF HexDigit(Head(s)) = -1 THEN -1
  ELSE IF (acc * 16) + HexDigit(Head(s)) > 65535 THEN -1
  ELSE HexValue((acc * 16) + HexDigit(Head(s)), Tail(s))

FromStrRadix16(s) ==
  LET digits == IF Len(s) > 1 /\ s[1] = 43 THEN Tail(s) ELSE s
  IN IF digits = <<>> THEN -1 ELSE HexValue(0, digits)

(***************************************************************************)
(* Telegram, FrameState and ModeDFrame.  A decoder is the record           *)
(*   state : FrameState, tag "Empty" or "PartialData" with its telegram t  *)
(*   crc   : the running value of the Digest                               *)
(*   fed   : history of crc: the bytes given to update() since the Digest  *)
(*           was created by CRC.digest()                                   *)
(*   frame : history of the buffer: the chunks split off it since the last *)
(*           header split, that header chunk first, one chunk per line     *)
(***************************************************************************)
Telegram(m, i, d) == [manufacturer |-> m, ident |-> i, data |-> d]

NoTelegram == Telegram(<<>>, <<>>, <<>>)

Empty == [tag |-> "Empty", t |-> NoTelegram]

PartialData(t) == [tag |-> "PartialData", t |-> t]

\* ModeDFrame::new()
New == [state |-> Empty, crc |-> CrcDigest, fed |-> <<>>, frame |-> <<>>]

\* reset() with a slip: the state is cleared, the checksum is kept
ResetKeepCrc(d) == [d EXCEPT !.state = Empty]

\* ModeDFrame::reset()
Reset(d) == [d EXCEPT !.state = Empty, !.crc = CrcDigest, !.fed = <<>>]

\* self.crc.update(bytes)
Update(d, bytes) ==
  [d EXCEPT !.crc = CrcUpdate(d.crc, bytes), !.fed = d.fed \o bytes]

(***************************************************************************)
(* The outcomes of one decode call: Ok(None), Ok(Some(telegram)), Err(e)   *)
(* and a panic (an out-of-range split_to or slice, an unwrap of Err).      *)
(* err names the io::Error by its message; info carries the numbers of the *)
(* message (the data line index, or the computed and received checksums).  *)
(***************************************************************************)
OkNone == [kind |-> "None", telegram |-> NoTelegram, err |-> "", info |-> <<>>]

OkSome(t) == [kind |-> "Some", telegram |-> t, err |-> "", info |-> <<>>]

Err(e, info) == [kind |-> "Err", telegram |-> NoTelegram, err |-> e, info |-> info]

Panic(why) == [kind |-> "Panic", telegram |-> NoTelegram, err |-> why, info |-> <<>>]

\* what a call leaves behind: the decoder, the buffer, and what it returned
Outcome(d, bytes, r) == [dec |-> d, bytes |-> bytes, result |-> r]

\* the number of bytes the header's split_to takes, for a line-feed at index end
HeaderSplitAt(end) == end + 3

\* the least length of the split-off header that is accepted
MinHeaderLen == 6

(***************************************************************************)
(* The trailer branch (lib.rs 107-117): line starts with '!'.              *)
(***************************************************************************)
DecodeTrailer(d, line, rest) ==
  LET d1 == Update(d, <<BANG>>)
      comp_crc == CrcFinalize(d1.crc)
  IN IF Len(line) < 5 \/ (Len(line) > 5 /\ IsCont(line[6]))
       THEN Outcome(d1, rest, Panic("str slice index"))
     ELSE LET recv_crc == FromStrRadix16(Slice(line, 1, 5))
          IN IF recv_crc = -1
               THEN Outcome(d1, rest, Panic("unwrap on ParseIntError"))
             ELSE IF comp_crc # recv_crc
               THEN Outcome(d1, rest, Err("ChecksumMismatch", <<comp_crc, recv_crc>>))
             ELSE Outcome(Reset(d1), rest, OkSome(d.state.t))

\* line.starts_with('!') (lib.rs 107): the line is the trailer line
IsTrailer(line) == StartsWith(line, BANG)

\* DecodePartial with a slip: the bytes of an incomplete line are fed to the
\* checksum before need-more-input is returned
RECURSIVE DecodePartialEager(_, _)
DecodePartialEager(d, bytes) ==
  LET end == Position(bytes, LF)
  IN IF end = -1 THEN Outcome(Update(d, bytes), bytes, OkNone)
     ELSE LET line_bytes == Slice(bytes, 0, end + 1)
              rest == SliceFrom(bytes, end + 1)
              t == d.state.t
              d0 == [d EXCEPT !.frame = Append(d.frame, line_bytes)]
          IN IF ~ValidUtf8(line_bytes)
               THEN Outcome(d0, rest, Err("InvalidEncodingData", <<Len(t.data)>>))
             ELSE IF Contains(line_bytes, BANG)
               THEN IF IsTrailer(line_bytes)
                      THEN DecodeTrailer(d0, line_bytes, rest)
                      ELSE Outcome(d0, rest, Err("TrailerMisplaced", <<>>))
             ELSE DecodePartialEager(
                    [Update(d0, line_bytes) EXCEPT
                       !.state = PartialData([t EXCEPT !.data = Append(t.data, Trim(line_bytes))])],
                    rest)

\* DecodePartial with a slip: after an accepted data line the loop goes on
\* one byte beyond the line
RECURSIVE DecodePartialSkip(_, _)
DecodePartialSkip(d, bytes) ==
  LET end == Position(bytes, LF)
  IN IF end = -1 THEN Outcome(d, bytes, OkNone)
     ELSE LET line_bytes == Slice(bytes, 0, end + 1)
              rest == SliceFrom(bytes, end + 1)
              t == d.state.t
              d0 == [d EXCEPT !.frame = Append(d.frame, line_bytes)]
          IN IF ~ValidUtf8(line_bytes)
               THEN Outcome(d0, rest, Err("InvalidEncodingData", <<Len(t.data)>>))
             ELSE IF Contains(line_bytes, BANG)
               THEN IF IsTrailer(line_bytes)
                      THEN DecodeTrailer(d0, line_bytes, rest)
                      ELSE Outcome(d0, rest, Err("TrailerMisplaced", <<>>))
             ELSE DecodePartialSkip(
                    [Update(d0, line_bytes) EXCEPT
                       !.state = PartialData([t EXCEPT !.data = Append(t.data, Trim(line_bytes))])],
                    IF rest = <<>> THEN rest ELSE Tail(rest))

\* DecodePartial with a slip: no loop, one line per call
DecodePartialOneLine(d, bytes) ==
  LET end == Position(bytes, LF)
  IN IF end = -1 THEN Outcome(d, bytes, OkNone)
     ELSE LET line_bytes == Slice(bytes, 0, end + 1)
              rest == SliceFrom(bytes, end + 1)
              t == d.state.t
              d0 == [d EXCEPT !.frame = Append(d.frame, line_bytes)]
          IN IF ~ValidUtf8(line_bytes)
               THEN Outcome(d0, rest, Err("InvalidEncodingData", <<Len(t.data)>>))
             ELSE IF Contains(line_bytes, BANG)
               THEN IF IsTrailer(line_bytes)
                      THEN DecodeTrailer(d0, line_bytes, rest)
                      ELSE Outcome(d0, rest, Err("TrailerMisplaced", <<>>))
             ELSE Outcome(
                    [Update(d0, line_bytes) EXCEPT
                       !.state = PartialData([t EXCEPT !.data = Append(t.data, Trim(line_bytes))])],
                    rest, OkNone)

(***************************************************************************)
(* The PartialData branch (lib.rs 94-130): the loop over complete lines.   *)
(***************************************************************************)
RECURSIVE DecodePartial(_, _)
DecodePartial(d, bytes) ==
  LET end == Position(bytes, LF)
  IN IF end = -1 THEN Outcome(d, bytes, OkNone)
     ELSE LET line_bytes == Slice(bytes, 0, end + 1)
              rest == SliceFrom(bytes, end + 1)
              t == d.state.t
              d0 == [d EXCEPT !.frame = Append(d.frame, line_bytes)]
          IN IF ~ValidUtf8(line_bytes)
               THEN Outcome(d0, rest, Err("InvalidEncodingData", <<Len(t.data)>>))
             ELSE IF Contains(line_bytes, BANG)
               THEN IF IsTrailer(line_bytes)
                      THEN DecodeTrailer(d0, line_bytes, rest)
                      ELSE Outcome(d0, rest, Err("TrailerMisplaced", <<>>))
             ELSE DecodePartial(
                    [Update(d0, line_bytes) EXCEPT
                       !.state = PartialData([t EXCEPT !.data = Append(t.data, Trim(line_bytes))])],
                    rest)

(***************************************************************************)
(* The header part of the Empty branch (lib.rs 66-92): bytes starts with   *)
(* the start marker.                                                       *)
(***************************************************************************)
DecodeHeader(d, bytes) ==
  LET end == Position(bytes, LF)
  IN IF end = -1 THEN Outcome(d, bytes, OkNone)
     ELSE IF HeaderSplitAt(end) > Len(bytes)
       THEN Outcome(d, bytes, Panic("split_to out of bounds"))
     ELSE LET line == Slice(bytes, 0, HeaderSplitAt(end))
              rest == SliceFrom(bytes, HeaderSplitAt(end))
              d1 == [Update(d, line) EXCEPT !.frame = <<line>>]
          IN IF Len(line) < MinHeaderLen
               THEN Outcome(d1, rest, Err("MalformedHeader", <<>>))
             ELSE IF ~ValidUtf8(SliceFrom(line, 5))
               THEN Outcome(d1, rest, Err("InvalidEncodingHeader", <<>>))
             ELSE DecodePartial(
                    [d1 EXCEPT
                       !.state = PartialData(Telegram(Slice(line, 1, 4),
                                                      Trim(SliceFrom(line, 5)),
                                                      <<>>))],
                    rest)

\* DecodeEmpty with a slip: a buffer without the start marker is drained
DecodeEmptyDrain(d, bytes) ==
  LET x == Position(bytes, SLASH)
  IN IF x > 0
       THEN DecodeHeader([d EXCEPT !.crc = CrcDigest, !.fed = <<>>], SliceFrom(bytes, x))
     ELSE IF x = 0 THEN DecodeHeader(d, bytes)
     ELSE Outcome(d, <<>>, OkNone)

(***************************************************************************)
(* The Empty branch (lib.rs 56-65): the scan for the start marker.         *)
(***************************************************************************)
DecodeEmpty(d, bytes) ==
  LET x == Position(bytes, SLASH)
  IN IF x > 0
       THEN DecodeHeader([d EXCEPT !.crc = CrcDigest, !.fed = <<>>], SliceFrom(bytes, x))
     ELSE IF x = 0 THEN DecodeHeader(d, bytes)
     ELSE Outcome(d, bytes, OkNone)

\* Decoder::decode(&mut self, bytes) (lib.rs 53-133)
Decode(d, bytes) ==
  IF d.state.tag = "Empty" THEN DecodeEmpty(d, bytes) ELSE DecodePartial(d, bytes)

(***************************************************************************)
(* The byte streams the transport delivers.  A frame of the wire format is *)
(* a header line, data lines and a trailer line "!CCCC\n"; GoodFrame       *)
(* carries the CRC-16/ARC of its body, '/' through '!', in upper-case hex. *)
(***************************************************************************)
RECURSIVE Concat(_)
Concat(ls) == IF ls = <<>> THEN <<>> ELSE Head(ls) \o Concat(Tail(ls))

HexChar(v) == IF v < 10 THEN 48 + v ELSE 55 + v

Hex4(v) ==
  <<HexChar(v \div 4096), HexChar((v \div 256) % 16), HexChar((v \div 16) % 16), HexChar(v % 16)>>

\* upper-case hex letters A-F to lower case
Lower(s) == [i \in 1..Len(s) |-> IF s[i] >= 65 /\ s[i] <= 70 THEN s[i] + 32 ELSE s[i]]

Body(h, ls) == h \o Concat(ls) \o <<BANG>>

Frame(h, ls, digits) == Body(h, ls) \o digits \o <<LF>>

BodyCrc(h, ls) == CrcFinalize(CrcUpdate(CrcDigest, Body(h, ls)))

GoodFrame(h, ls) == Frame(h, ls, Hex4(BodyCrc(h, ls)))

\* "/ABC5i\n" and the header of the documented example, "/ABC123\n"
Hdr == <<47, 65, 66, 67, 53, 105, 10>>

HdrExample == <<47, 65, 66, 67, 49, 50, 51, 10>>

\* "\r\n", "V1\n", "VAL1\n", "VAL2\n"
CrLf == <<13, 10>>

V1 == <<86, 49, 10>>

Val1 == <<86, 65, 76, 49, 10>>

Val2 == <<86, 65, 76, 50, 10>>

\* "/ABC123\nVAL1\nVAL2\n!" + hex(crc) + "\n"
Example == GoodFrame(HdrExample, <<Val1, Val2>>)

DataLineSet == {CrLf, V1}

LineSeqs == UNION {[1..n -> DataLineSet] : n \in 0..MaxDataLines}

\* valid, well-formed telegram encodings
WellFormed == {GoodFrame(Hdr, ls) : ls \in LineSeqs} \cup {Example}

\* complete frames whose trailer is four hex digits: right, right in lower
\* case, one digit changed, and one bit of the body flipped ('V' to 'W')
WrongDigits(h, ls) == Hex4((BodyCrc(h, ls) + 1) % 65536)

HexFrames ==
  {Frame(Hdr, ls, WrongDigits(Hdr, ls)) : ls \in LineSeqs}
    \cup {Frame(Hdr, <<CrLf, V1>>, Lower(Hex4(BodyCrc(Hdr, <<CrLf, V1>>)))),
          Frame(HdrExample, <<Val1, Val2>>, WrongDigits(HdrExample, <<Val1, Val2>>)),
          Frame(Hdr, <<CrLf, <<87, 49, 10>>>>, Hex4(BodyCrc(Hdr, <<CrLf, V1>>)))}

CompleteFrames == WellFormed \cup HexFrames

\* trailer lines that start with '!' and are not "!CCCC\n":
\* "!\n", "!12\n", "!123\n", "!ZZZZ\n", "!+123\n", "!12" 0xC3 0xA9 "\n", "!" 0xFF "\n",
\* "!A!B\n"
BadTrailers ==
  {<<33, 10>>, <<33, 49, 50, 10>>, <<33, 49, 50, 51, 10>>, <<33, 90, 90, 90, 90, 10>>,
   <<33, 43, 49, 50, 51, 10>>, <<33, 49, 50, 195, 169, 10>>, <<33, 255, 10>>,
   <<33, 65, 33, 66, 10>>}

\* lines with the marker inside: "a!b\n", "a!\n", "a!" 0xFF "\n"; and 0xFF "\n"
MarkedLines == {<<97, 33, 98, 10>>, <<97, 33, 10>>, <<97, 33, 255, 10>>}

BadUtf8Line == <<255, 10>>

\* header lines shorter than 6 bytes, "/\n", "/AB\n", "/ABC\n", each followed
\* by "xy"; and a header whose identifier is not UTF-8
ShortHeaders == {<<47, 10>>, <<47, 65, 66, 10>>, <<47, 65, 66, 67, 10>>}

BadUtf8Header == <<47, 65, 66, 67, 53, 255, 10>>

XY == <<120, 121>>

\* frames that end in an error
BadFrames ==
  {h \o XY : h \in ShortHeaders \cup {BadUtf8Header}}
    \cup {Hdr \o CrLf \o l : l \in MarkedLines \cup {BadUtf8Line}}
    \cup {Frame(Hdr, <<CrLf, V1>>, WrongDigits(Hdr, <<CrLf, V1>>))}

\* noise between frames: none, "x", "x\ny"
Noise == {<<>>, <<120>>, <<120, 10, 121>>}

G0 == GoodFrame(Hdr, <<CrLf, V1>>)

\* a frame whose trailer carries the checksum of the bytes of an earlier
\* failed header followed by its own body
StaleFrame(bad) ==
  Frame(Hdr, <<CrLf>>, Hex4(CrcFinalize(CrcUpdate(CrcDigest, bad \o Body(Hdr, <<CrLf>>)))))

\* the first of two frames back to back: with data lines, and without any
FirstFrames == {G0, GoodFrame(Hdr, <<>>)}

Inputs ==
  CompleteFrames
    \cup {n \o G0 : n \in Noise}
    \cup {Hdr \o CrLf \o t : t \in BadTrailers}
    \cup {b \o n \o G0 : b \in BadFrames, n \in {<<>>, <<120>>}}
    \cup {h \o XY \o V1 \o G0 : h \in ShortHeaders}
    \cup {<<47, 10>> \o XY \o StaleFrame(<<47, 10>> \o XY)}
    \cup {f \o g : f \in FirstFrames, g \in {GoodFrame(Hdr, <<V1>>)}}
    \cup {Hdr \o l \o V1 : l \in {<<97, 33, 98, 10>>}}

(***************************************************************************)
(* The program: a caller that owns a decoder and a buffer, appends the     *)
(* bytes the transport delivers and calls decode() and reset().            *)
(*   input    the whole stream (fixed), stream the part not yet delivered  *)
(*   buf      the BytesMut handed to decode                                *)
(*   dec      the ModeDFrame                                               *)
(*   op       the last operation; result what the last decode returned;    *)
(*   pre      the decoder and buffer the last decode or reset started from *)
(*   emitted  the telegrams returned so far                                *)
(*   firstErr where the first Err was returned: the number of bytes        *)
(*            consumed and of telegrams emitted by then (end = -1: none)   *)
(*   resets   the number of reset() calls                                  *)
(***************************************************************************)
VARIABLES input, stream, buf, dec, op, result, pre, emitted, firstErr, resets

vars == <<input, stream, buf, dec, op, result, pre, emitted, firstErr, resets>>

NoCall == [kind |-> "NoCall", telegram |-> NoTelegram, err |-> "", info |-> <<>>]

NoPre == [dec |-> New, buf |-> <<>>]

\* a panic unwinds out of decode: the caller makes no further call
Aborted == result.kind = "Panic"

\* the number of bytes of input that decode has taken off the buffer
Consumed == Len(input) - Len(stream) - Len(buf)

Init ==
  /\ input \in Inputs
  /\ stream = input
  /\ buf = <<>>
  /\ dec = New
  /\ op = "new"
  /\ result = NoCall
  /\ pre = NoPre
  /\ emitted = <<>>
  /\ firstErr = [end |-> -1, n |-> 0]
  /\ resets = 0

\* the transport delivers the next n bytes, appended to the buffer
Feed ==
  /\ ~Aborted
  /\ \E n \in 1..Len(stream) :
       /\ buf' = buf \o SubSeq(stream, 1, n)
       /\ stream' = SubSeq(stream, n + 1, Len(stream))
  /\ op' = "feed"
  /\ result' = NoCall
  /\ pre' = NoPre
  /\ UNCHANGED <<input, dec, emitted, firstErr, resets>>

\* one call of decode(&mut buf)
DecodeCall ==
  /\ ~Aborted
  /\ LET out == Decode(dec, buf)
     IN /\ dec' = out.dec
        /\ buf' = out.bytes
        /\ result' = out.result
        /\ emitted' = IF out.result.kind = "Some"
                        THEN Append(emitted, out.result.telegram)
                        ELSE emitted
        /\ firstErr' = IF out.result.kind = "Err" /\ firstErr.end = -1
                         THEN [end |-> Len(input) - Len(stream) - Len(out.bytes),
                               n |-> Len(emitted)]
                         ELSE firstErr
  /\ op' = "decode"
  /\ pre' = [dec |-> dec, buf |-> buf]
  /\ UNCHANGED <<input, stream, resets>>

\* one call of reset()
ResetCall ==
  /\ ~Aborted
  /\ resets < MaxResets
  /\ dec' = Reset(dec)
  /\ resets' = resets + 1
  /\ op' = "reset"
  /\ result' = NoCall
  /\ pre' = [dec |-> dec, buf |-> buf]
  /\ UNCHANGED <<input, stream, buf, emitted, firstErr>>

Next == Feed \/ DecodeCall \/ ResetCall

Spec == Init /\ [][Next]_vars

(***************************************************************************)
(* Vocabulary of the properties.                                           *)
(***************************************************************************)
\* the last operation was a decode call
Decoded == op = "decode"

\* the first complete line of a buffer that holds a line-feed
FirstLine(b) == Slice(b, 0, Position(b, LF) + 1)

\* the header line of a buffer: from its first '/' through the next line-feed
HeaderLine(b) == FirstLine(SliceFrom(b, Position(b, SLASH)))

HasHeaderLine(b) ==
  Position(b, SLASH) >= 0 /\ Position(SliceFrom(b, Position(b, SLASH)), LF) >= 0

IsHex4(s) == Len(s) = 4 /\ \A i \in 1..4 : HexDigit(s[i]) >= 0

\* the checksum of a byte string, computed in one piece
Crc16(s) == CrcFinalize(CrcUpdate(CrcDigest, s))

\* what one decode call of a new decoder on the whole of s emits
WholeEmitted(s) ==
  LET r == Decode(New, s).result
  IN IF r.kind = "Some" THEN <<r.telegram>> ELSE <<>>

\* the telegram the last call built or returned
CurrentTelegram == IF result.kind = "Some" THEN result.telegram ELSE dec.state.t

(***************************************************************************)
(* C1.  A telegram is returned only when the four hex digits of its        *)
(* trailer line equal the CRC-16/ARC of its own frame body as received:    *)
(* the chunks split off the buffer from its header on, through the '!'.    *)
(* Refuted: a header error leaves its bytes in the accumulator, and the    *)
(* next frame at offset 0 is checked against the checksum of both.         *)
(***************************************************************************)
C1_EmittedChecksumMatches ==
  (Decoded /\ result.kind = "Some") =>
    LET trailer == dec.frame[Len(dec.frame)]
        body == Concat(SubSeq(dec.frame, 1, Len(dec.frame) - 1)) \o <<BANG>>
    IN /\ Len(trailer) >= 5
       /\ IsHex4(Slice(trailer, 1, 5))
       /\ HexValue(0, Slice(trailer, 1, 5)) = Crc16(body)

(***************************************************************************)
(* C2.  Fragmentation invariance: a well-formed telegram encoding fed in   *)
(* any pieces, with decode calls in between, never fails and, once all of  *)
(* it is fed and decode is called, has emitted what one call on the whole  *)
(* encoding emits.  Refuted: a call made when fewer than two bytes follow  *)
(* the header's line-feed panics in split_to.                              *)
(***************************************************************************)
C2_FragmentationInvariance ==
  (input \in WellFormed /\ resets = 0) =>
    /\ result.kind \notin {"Err", "Panic"}
    /\ emitted \in {<<>>, WholeEmitted(input)}
    /\ (Decoded /\ stream = <<>>) => emitted = WholeEmitted(input)

(***************************************************************************)
(* C3.  Whenever decode returns an error the decoder has been reset: state *)
(* Empty, and a fresh checksum accumulator with no byte fed.  Refuted: no  *)
(* error path calls reset().                                               *)
(***************************************************************************)
C3_ErrorResetsDecoder ==
  (Decoded /\ result.kind = "Err") =>
    /\ dec.state = Empty
    /\ dec.crc = CrcDigest
    /\ dec.fed = <<>>

(***************************************************************************)
(* C4.  Post-error recovery: if what follows the bytes consumed up to the  *)
(* first error is a well-formed frame, with or without noise before its    *)
(* '/', then once all of it is fed and no complete line is left in the     *)
(* buffer, exactly that frame's telegram has been emitted since the error. *)
(* Refuted: the decoder stays in PartialData (or keeps a stale checksum).  *)
(***************************************************************************)
C4_PostErrorRecovery ==
  \A n \in {<<>>, <<120>>} : \A g \in WellFormed :
    (/\ firstErr.end >= 0
     /\ resets = 0
     /\ SliceFrom(input, firstErr.end) = n \o g
     /\ Decoded
     /\ stream = <<>>
     /\ Position(buf, LF) = -1)
    => SubSeq(emitted, firstErr.n + 1, Len(emitted)) = WholeEmitted(g)

(***************************************************************************)
(* C5.  Resynchronization: a decode call in state Empty on a buffer that   *)
(* holds no '/' returns need-more-input, and leaves the buffer, the state  *)
(* and the checksum accumulator as they were.                              *)
(***************************************************************************)
C5_Resynchronization ==
  (Decoded /\ pre.dec.state.tag = "Empty" /\ ~Contains(pre.buf, SLASH)) =>
    /\ result = OkNone
    /\ buf = pre.buf
    /\ dec = pre.dec

\* reached: such a call on noise that even holds a complete line
C5_Witness ==
  /\ Decoded
  /\ pre.dec.state.tag = "Empty"
  /\ ~Contains(pre.buf, SLASH)
  /\ Contains(pre.buf, LF)
  /\ result = OkNone
  /\ buf = pre.buf

(***************************************************************************)
(* C6.  Checksum correctness: a complete frame given whole to a new        *)
(* decoder is emitted if and only if its four trailer digits, read         *)
(* case-insensitively, equal the CRC-16/ARC of '/' through '!'; otherwise  *)
(* decode returns ChecksumMismatch.  Refuted: the header split takes two   *)
(* bytes beyond the header line, so a frame without data lines loses its   *)
(* trailer marker and is never completed.                                  *)
(***************************************************************************)
C6_ChecksumCorrectness ==
  (Decoded /\ pre.dec = New /\ pre.buf = input /\ input \in CompleteFrames) =>
    LET body == Slice(input, 0, Len(input) - 5)
        digits == Slice(input, Len(input) - 5, Len(input) - 1)
        match == HexValue(0, digits) = Crc16(body)
    IN /\ result.kind = "Some" <=> match
       /\ ~match => (result.kind = "Err" /\ result.err = "ChecksumMismatch")

(***************************************************************************)
(* C7.  Field extraction: the documented example yields manufacturer       *)
(* "ABC", ident "123", data ["VAL1", "VAL2"]; and in general the           *)
(* manufacturer is bytes 1..3 of the header line and the ident the trimmed *)
(* rest of the header line after the separator.  Refuted: the ident runs   *)
(* two bytes into the next line (and starts after byte 4).                 *)
(***************************************************************************)
C7_FieldExtraction ==
  /\ (Decoded /\ pre.dec = New /\ pre.buf = Example) =>
       result = OkSome(Telegram(<<65, 66, 67>>, <<49, 50, 51>>,
                                <<<<86, 65, 76, 49>>, <<86, 65, 76, 50>>>>))
  /\ (/\ Decoded
      /\ pre.dec.state.tag = "Empty"
      /\ HasHeaderLine(pre.buf)
      /\ Len(HeaderLine(pre.buf)) >= 6
      /\ (result.kind = "Some" \/ dec.state.tag = "PartialData"))
     => /\ CurrentTelegram.manufacturer = Slice(HeaderLine(pre.buf), 1, 4)
        /\ CurrentTelegram.ident = Trim(SliceFrom(HeaderLine(pre.buf), 5))

\* the complete line that directly follows the header line of a buffer
LineAfterHeader(b) ==
  LET hb == SliceFrom(b, Position(b, SLASH))
  IN FirstLine(SliceFrom(hb, Len(FirstLine(hb))))

\* the buffer holds an acceptable header line and a complete line after it
HasLineAfterHeader(b) ==
  /\ HasHeaderLine(b)
  /\ Len(HeaderLine(b)) >= MinHeaderLen
  /\ ValidUtf8(SliceFrom(HeaderLine(b), 5))
  /\ LET hb == SliceFrom(b, Position(b, SLASH))
     IN Contains(SliceFrom(hb, Len(FirstLine(hb))), LF)

\* the claimed treatment of one complete line, given the data held before it
PlacedAsClaimed(line, dataBefore) ==
  /\ (Contains(line, BANG) /\ ~StartsWith(line, BANG))
       => result = Err("TrailerMisplaced", <<>>)
  /\ StartsWith(line, BANG)
       => /\ CurrentTelegram.data = dataBefore
          /\ \/ result.kind \in {"Some", "Panic"}
             \/ result.err = "ChecksumMismatch"

(***************************************************************************)
(* C8.  Trailer placement: every complete line of a telegram in progress   *)
(* that holds '!' but does not start with it fails with TrailerMisplaced,  *)
(* and every line that starts with '!' takes the trailer branch and is not *)
(* appended to data.  Stated for the first line of a call in PartialData   *)
(* and for the line that directly follows the header line in a call in     *)
(* Empty, and only for lines that are valid UTF-8 (a line that is not is   *)
(* rejected as InvalidEncoding before it is classified).  Refuted for the  *)
(* line after the header: the header split takes its first two bytes, so   *)
(* its '!' is never seen at the start of a line.                           *)
(***************************************************************************)
C8_TrailerPlacement ==
  /\ (Decoded /\ pre.dec.state.tag = "PartialData" /\ Contains(pre.buf, LF)
        /\ ValidUtf8(FirstLine(pre.buf)))
       => PlacedAsClaimed(FirstLine(pre.buf), pre.dec.state.t.data)
  /\ (Decoded /\ pre.dec.state.tag = "Empty" /\ HasLineAfterHeader(pre.buf)
        /\ ValidUtf8(LineAfterHeader(pre.buf)))
       => PlacedAsClaimed(LineAfterHeader(pre.buf), <<>>)

(***************************************************************************)
(* C9.  A complete line that starts with '!' and is not followed by four   *)
(* hex digits makes decode return an error value; decode does not panic.   *)
(* Refuted: the slice line[1..5] and the unwrap of from_str_radix panic.   *)
(***************************************************************************)
C9_MalformedTrailerIsError ==
  (/\ Decoded
   /\ pre.dec.state.tag = "PartialData"
   /\ Contains(pre.buf, LF)
   /\ StartsWith(FirstLine(pre.buf), BANG)
   /\ ~(Len(FirstLine(pre.buf)) >= 5 /\ IsHex4(Slice(FirstLine(pre.buf), 1, 5))))
  => result.kind = "Err"

(***************************************************************************)
(* C10.  MalformedHeader: a header line shorter than 6 bytes fails with    *)
(* the malformed-header error and enters no PartialData state; a header    *)
(* line of 6 bytes or more with a UTF-8 identifier does not fail with it.  *)
(* Refuted: the length tested is that of the header line plus two bytes,   *)
(* so header lines of 4 and 5 bytes are accepted.                          *)
(***************************************************************************)
C10_MalformedHeader ==
  (Decoded /\ pre.dec.state.tag = "Empty" /\ HasHeaderLine(pre.buf)) =>
    LET h == HeaderLine(pre.buf)
    IN /\ Len(h) < 6 => (result = Err("MalformedHeader", <<>>) /\ dec.state.tag = "Empty")
       /\ (Len(h) >= 6 /\ ValidUtf8(SliceFrom(h, 5))) => result.err # "MalformedHeader"


(***************************************************************************)
(* C11.  One telegram per call: with two complete well-formed frames back  *)
(* to back in the buffer of a new decoder, the first call returns the      *)
(* first frame's telegram, leaves the state Empty with a fresh checksum    *)
(* and leaves exactly the second frame in the buffer; the next call        *)
(* returns the second frame's telegram.  Refuted when the first frame has  *)
(* no data line: the header split swallows its trailer marker.             *)
(***************************************************************************)
C11_OneFramePerCall ==
  \A f \in WellFormed : \A g \in WellFormed :
    /\ (Decoded /\ input = f \o g /\ pre.dec = New /\ pre.buf = input)
         => /\ result.kind = "Some"
            /\ <<result.telegram>> = WholeEmitted(f)
            /\ dec.state = Empty
            /\ dec.crc = CrcDigest
            /\ dec.fed = <<>>
            /\ buf = g
    /\ (Decoded /\ input = f \o g /\ pre.buf = g /\ resets = 0 /\ Len(emitted) >= 1)
         => /\ result.kind = "Some"
            /\ emitted = WholeEmitted(f) \o WholeEmitted(g)

(***************************************************************************)
(* C12.  reset() in any state leaves the state Empty and the checksum      *)
(* accumulator that of a new decoder, and the decoder then answers every   *)
(* input that can follow (the buffer plus any further delivery) exactly as *)
(* a new decoder does: same result, same buffer left, same state and       *)
(* checksum after.                                                         *)
(***************************************************************************)
\* the fields of the struct, without the history
Fields(d) == [state |-> d.state, crc |-> d.crc]

SameBehaviour(d, e, b) ==
  /\ Decode(d, b).result = Decode(e, b).result
  /\ Decode(d, b).bytes = Decode(e, b).bytes
  /\ Fields(Decode(d, b).dec) = Fields(Decode(e, b).dec)

C12_ResetIsNew ==
  op = "reset" =>
    /\ Fields(dec) = Fields(New)
    /\ dec.fed = <<>>
    /\ \A k \in 0..Len(stream) : SameBehaviour(dec, New, buf \o SubSeq(stream, 1, k))

\* reached: a reset in the middle of a frame, with bytes waiting in the buffer
C12_Witness ==
  /\ op = "reset"
  /\ pre.dec.state.tag = "PartialData"
  /\ pre.dec.fed # <<>>
  /\ Len(pre.dec.state.t.data) >= 1
  /\ buf # <<>>
  /\ dec.state = Empty


(***************************************************************************)
(* C13.  No indefinite need-more-input: decode returns need-more-input     *)
(* only when what is left ends in an incomplete line: no start marker in   *)
(* state Empty, or no line-feed after the start marker, or no line-feed    *)
(* with a telegram in progress; no complete line is left unprocessed.      *)
(***************************************************************************)
C13_NeedMoreOnlyIfIncomplete ==
  (Decoded /\ result = OkNone) =>
    \/ dec.state.tag = "Empty" /\ ~Contains(buf, SLASH)
    \/ dec.state.tag = "Empty" /\ StartsWith(buf, SLASH) /\ ~Contains(buf, LF)
    \/ dec.state.tag = "PartialData" /\ ~Contains(buf, LF)

\* reached: a call that took a header and a data line and stops at a partial line
C13_Witness ==
  /\ Decoded
  /\ result = OkNone
  /\ pre.dec.state.tag = "Empty"
  /\ dec.state.tag = "PartialData"
  /\ Len(dec.state.t.data) >= 1
  /\ buf # <<>>
  /\ ~Contains(buf, LF)


(***************************************************************************)
(* C14.  Header consumption: with '/' at the start of the buffer and a     *)
(* line-feed at index e, the chunk split off for the header is exactly the *)
(* e + 1 bytes of the header line, and those are the bytes fed to the      *)
(* checksum for it; what follows the terminator is left to the data        *)
(* accumulator.  Refuted: the split takes e + 3 bytes, or panics when      *)
(* fewer than two bytes follow the line-feed.                              *)
(***************************************************************************)
C14_HeaderConsumption ==
  (Decoded /\ pre.dec.state.tag = "Empty" /\ StartsWith(pre.buf, SLASH)
     /\ Contains(pre.buf, LF)) =>
    LET h == HeaderLine(pre.buf)
    IN /\ dec.frame # <<>>
       /\ dec.frame[1] = h
       /\ result.kind # "Some"
            => SubSeq(dec.fed, 1, Len(pre.dec.fed) + Len(h)) = pre.dec.fed \o h


(***************************************************************************)
(* C15.  Checksum coverage: while a telegram is in progress, the bytes fed *)
(* to the accumulator since it was created are exactly the frame's header  *)
(* line, each data line accepted since (with its terminator) and, once the *)
(* trailer is seen, the single '!'.  Refuted: the accumulator also holds   *)
(* the two bytes after the header line, and the bytes of an earlier failed *)
(* header when the next '/' is at offset 0.                                *)
(***************************************************************************)
\* what a complete line after the header adds to the checksum
FedOfLine(c) ==
  IF ~ValidUtf8(c) THEN <<>>
  ELSE IF StartsWith(c, BANG) THEN <<BANG>>
  ELSE IF Contains(c, BANG) THEN <<>>
  ELSE c

\* the complete lines of a byte string, in order
RECURSIVE CompleteLines(_)
CompleteLines(b) ==
  IF ~Contains(b, LF) THEN <<>>
  ELSE <<FirstLine(b)>> \o CompleteLines(SliceFrom(b, Position(b, LF) + 1))

\* the bytes received for the frame so far, read as lines: the header line,
\* then what each complete line after it adds
ExpectedFed(frame) ==
  LET ls == CompleteLines(Concat(frame))
  IN ls[1] \o Concat([i \in 1..(Len(ls) - 1) |-> FedOfLine(ls[i + 1])])

C15_ChecksumCoverage ==
  dec.state.tag = "PartialData" =>
    /\ dec.fed = ExpectedFed(dec.frame)
    /\ dec.crc = CrcUpdate(CrcDigest, ExpectedFed(dec.frame))


(***************************************************************************)
(* C16.  The accumulator is fresh when a frame begins: in state Empty with *)
(* a header line at the start of the buffer it holds no byte, and after a  *)
(* call that took a header line (at offset 0 or after noise) what it holds *)
(* starts with that header.  Refuted: a header error returns with the      *)
(* header's bytes in the accumulator, and a '/' at offset 0 does not       *)
(* reset it.                                                               *)
(***************************************************************************)
C16_FreshAtFrameStart ==
  /\ (dec.state.tag = "Empty" /\ StartsWith(buf, SLASH) /\ Contains(buf, LF))
       => (dec.fed = <<>> /\ dec.crc = CrcDigest)
  /\ (Decoded /\ pre.dec.state.tag = "Empty" /\ HasHeaderLine(pre.buf)
        /\ result.kind \notin {"Some", "Panic"})
       => SubSeq(dec.fed, 1, Len(dec.frame[1])) = dec.frame[1]


(***************************************************************************)
(* C17.  A decode call that finds no complete line changes nothing: with   *)
(* the buffer starting with '/' and no line-feed in state Empty, or with   *)
(* no line-feed in state PartialData, it returns need-more-input and the   *)
(* buffer, the state, the in-progress telegram and the accumulator are     *)
(* what they were before the call.                                         *)
(***************************************************************************)
C17_IncompleteLineUntouched ==
  (/\ Decoded
   /\ \/ pre.dec.state.tag = "Empty" /\ StartsWith(pre.buf, SLASH)
      \/ pre.dec.state.tag = "PartialData"
   /\ ~Contains(pre.buf, LF))
    => /\ result = OkNone
       /\ buf = pre.buf
       /\ dec.state = pre.dec.state
       /\ dec.crc = pre.dec.crc
       /\ dec.fed = pre.dec.fed
       /\ dec = pre.dec

\* a call in PartialData, one data line held, on the first bytes of a line
C17_Witness ==
  /\ Decoded
  /\ pre.dec.state.tag = "PartialData"
  /\ Len(pre.dec.state.t.data) >= 1
  /\ pre.buf # <<>>
  /\ ~Contains(pre.buf, LF)
  /\ result = OkNone
  /\ buf = pre.buf

\* the trimmed lines up to the first line that is not an accepted data line
RECURSIVE AcceptedPrefix(_)
AcceptedPrefix(ls) ==
  IF ls = <<>> THEN <<>>
  ELSE IF ~ValidUtf8(Head(ls)) \/ Contains(Head(ls), BANG) THEN <<>>
  ELSE <<Trim(Head(ls))>> \o AcceptedPrefix(Tail(ls))

\* the data entries of a frame: its complete lines after the header line, up
\* to the trailer, each trimmed
ExpectedData(frame) == AcceptedPrefix(Tail(CompleteLines(Concat(frame))))

NoMarker(data) == \A i \in 1..Len(data) : ~Contains(data[i], BANG)

(***************************************************************************)
(* C18.  The data of the in-progress telegram and of an emitted telegram   *)
(* are the complete lines consumed since the header line, before the       *)
(* trailer, in order and trimmed; no entry holds the '!' marker or text    *)
(* that followed the trailer.  Refuted: the header split takes two bytes   *)
(* of the first line, and lines after a rejected trailer are appended to   *)
(* the same telegram.                                                      *)
(***************************************************************************)
C18_DataLines ==
  /\ dec.state.tag = "PartialData"
       => (dec.state.t.data = ExpectedData(dec.frame) /\ NoMarker(dec.state.t.data))
  /\ (Decoded /\ result.kind = "Some")
       => (result.telegram.data = ExpectedData(dec.frame) /\ NoMarker(result.telegram.data))

(***************************************************************************)
(* C19.  No split or advance asks for more bytes than the buffer holds:    *)
(* when a decode call in state Empty finds a header line, the count of the *)
(* header split is at most the length of what follows the start marker,    *)
(* and the call does not abort on the split.  Refuted: the count is the    *)
(* line-feed's index plus 3.                                               *)
(***************************************************************************)
C19_SplitWithinBuffer ==
  (Decoded /\ pre.dec.state.tag = "Empty" /\ HasHeaderLine(pre.buf))
    => LET hb == SliceFrom(pre.buf, Position(pre.buf, SLASH))
       IN /\ HeaderSplitAt(Position(hb, LF)) <= Len(hb)
          /\ ~(result.kind = "Panic" /\ result.err = "split_to out of bounds")

RECURSIVE CountLF(_)
CountLF(b) ==
  IF b = <<>> THEN 0 ELSE (IF Head(b) = LF THEN 1 ELSE 0) + CountLF(Tail(b))

\* the call took a header: state Empty, a header line in the buffer
TookHeader ==
  /\ pre.dec.state.tag = "Empty"
  /\ HasHeaderLine(pre.buf)
  /\ ~(result.kind = "Panic" /\ result.err = "split_to out of bounds")

\* the chunks the last decode call split off the buffer, one per iteration
Taken ==
  IF pre.dec.state.tag = "PartialData"
    THEN SubSeq(dec.frame, Len(pre.dec.frame) + 1, Len(dec.frame))
  ELSE IF TookHeader THEN dec.frame
  ELSE <<>>

\* the bytes before the start marker that the Empty branch advanced over
Skipped ==
  IF pre.dec.state.tag = "Empty" /\ Position(pre.buf, SLASH) > 0
    THEN Slice(pre.buf, 0, Position(pre.buf, SLASH))
  ELSE <<>>

(***************************************************************************)
(* C20.  Every decode call terminates, with the buffer as its measure: the *)
(* call takes at most one header (none in state PartialData), every        *)
(* iteration of the PartialData loop splits one complete non-empty line    *)
(* off the front of the buffer, what is left is a suffix of the buffer,    *)
(* and the number of chunks taken is at most the number of line-feeds the  *)
(* buffer held.                                                            *)
(***************************************************************************)
C20_DecodeTerminates ==
  Decoded =>
    /\ Skipped \o Concat(Taken) \o buf = pre.buf
    /\ pre.dec.state.tag = "PartialData"
         => SubSeq(dec.frame, 1, Len(pre.dec.frame)) = pre.dec.frame
    /\ \A i \in 1..Len(Taken) :
         /\ Taken[i] # <<>>
         /\ (i > 1 \/ pre.dec.state.tag = "PartialData")
              => Position(Taken[i], LF) = Len(Taken[i]) - 1
    /\ Len(Taken) <= CountLF(pre.buf)

\* one call that skips noise, takes a header and three lines and emits,
\* with bytes left in the buffer
C20_Witness ==
  /\ Decoded
  /\ pre.dec.state.tag = "Empty"
  /\ Skipped # <<>>
  /\ Len(Taken) >= 3
  /\ result.kind = "Some"
  /\ CountLF(pre.buf) > Len(Taken)

====
